---- MODULE Spec2Model ----
(***************************************************************************)
(* Disease Prediction System: the record store (src/database.py) and the   *)
(* two prediction pipelines of main() (src/app.py).                        *)
(*                                                                         *)
(* Strings that the code inspects character by character (names, emails)   *)
(* are sequences of one-character strings.  Strings the code only passes   *)
(* around (labels, messages, column names) are TLA+ strings.               *)
(***************************************************************************)
EXTENDS Integers, Sequences, FiniteSets, TLC

VARIABLES
    diabetes_predictions,   \* rows of table diabetes_predictions, in rowid order
    heart_predictions,      \* rows of table heart_disease_predictions, in rowid order
    sqlite_sequence,        \* AUTOINCREMENT high-water mark per table
    connection,             \* the script thread has a thread-local connection
    models_loaded,          \* app.py:122-127
    pc,                     \* position of the current script run in main()
    run,                    \* locals and observable effects of the current script run
    result,                 \* DataFrame returned by the last store query
    runs,                   \* number of pipeline runs started so far
    call,                   \* a direct call of one function: its arguments and result
    workers,                \* worker threads appending concurrently, and the engine's lock
    user_version,           \* the schema version in the database file's header
    session                 \* st.session_state, the widgets and the position of a script run

vars == <<diabetes_predictions, heart_predictions, sqlite_sequence, connection,
          models_loaded, pc, run, result, runs, call, workers, user_version, session>>

\* Variables the prediction pipeline of one session never touches
aux == <<call, workers, user_version, session>>

----------------------------------------------------------------------------
(* Bounds of the model *)

MaxRuns == 2
MaxTime == 2

\* Worker threads that append concurrently
NumWorkers == 2

----------------------------------------------------------------------------
(* Input alphabets *)

Diseases == {"diabetes", "heart"}

GMAIL   == <<"@","g","m","a","i","l",".","c","o","m">>
YAHOO   == <<"@","y","a","h","o","o",".","c","o","m">>
OUTLOOK == <<"@","o","u","t","l","o","o","k",".","c","o","m">>
RANDOM  == <<"@","r","a","n","d","o","m",".","i","o">>

\* email_type tuple of the prediction forms
email_type == {GMAIL, YAHOO, OUTLOOK}

\* Characters for which str.isalpha() is true, among the characters used here.
Alpha == {"J","o","h","n","D","a","b","u"}

Names == { <<>>,                          \* ""
           <<"J","o"," ","D">>,            \* "Jo D"
           <<"J","o","h","n","3">>,        \* "John3"
           <<" ">> }                       \* " "

Emails == { <<>>,                          \* ""
            <<"a">> \o GMAIL,              \* "a@gmail.com"
            <<"b">> \o YAHOO,              \* "b@yahoo.com"
            <<"u">> \o RANDOM }            \* "user@random.io"

\* Representative feature vectors: one the classifier labels 0, one it labels
\* 1, and one on which it raises (e.g. a shape the artifact was not trained on).
FeatureVectors == {"v0", "v1", "vx"}

\* Readings of the wall clock, in seconds
Times == 1..MaxTime

\* SQL NULL; SQLite orders NULL before every other value.
NULL == 0

----------------------------------------------------------------------------
(* String helpers, as Python computes them *)

\* s.replace(" ", "")
RECURSIVE replace_spaces(_)
replace_spaces(s) ==
    IF s = <<>> THEN <<>>
    ELSE IF Head(s) = " " THEN replace_spaces(Tail(s))
         ELSE <<Head(s)>> \o replace_spaces(Tail(s))

\* s.isalpha(): non-empty and every character alphabetic
isalpha(s) == Len(s) > 0 /\ \A i \in 1..Len(s) : s[i] \in Alpha

\* s.endswith(suffix)
endswith1(s, suffix) ==
    /\ Len(suffix) <= Len(s)
    /\ SubSeq(s, Len(s) - Len(suffix) + 1, Len(s)) = suffix

\* s.endswith(tuple_of_suffixes)
endswith(s, suffixes) == \E x \in suffixes : endswith1(s, x)

----------------------------------------------------------------------------
(* Record store: src/database.py *)

\* CREATE TABLE diabetes_predictions
DiabetesColumns ==
    {"id", "name", "email", "pregnancies", "glucose", "blood_pressure",
     "skin_thickness", "insulin", "bmi", "diabetes_pedigree", "age",
     "prediction", "prediction_date"}

\* CREATE TABLE heart_disease_predictions
HeartColumns ==
    {"id", "name", "email", "age", "sex", "chest_pain_type", "resting_bp",
     "cholesterol", "fasting_bs", "resting_ecg", "max_heart_rate",
     "exercise_angina", "oldpeak", "st_slope", "major_vessels", "thalassemia",
     "prediction", "prediction_date"}

\* Column list of the INSERT in save_diabetes_prediction
DiabetesInsertColumns ==
    {"name", "sex", "email", "pregnancies", "glucose", "blood_pressure",
     "skin_thickness", "insulin", "bmi", "diabetes_pedigree", "age",
     "prediction", "prediction_date"}

\* Column list of the INSERT in save_heart_disease_prediction.  The class body
\* defines the method twice; the second definition replaces the first.
HeartInsertColumns ==
    {"name", "email", "age", "sex", "chest_pain_type", "resting_bp",
     "cholesterol", "fasting_bs", "resting_ecg", "max_heart_rate",
     "exercise_angina", "oldpeak", "st_slope", "major_vessels", "thalassemia",
     "prediction"}

\* Faults the storage engine can raise during a save.
StoreFaults == {"none", "connect", "execute"}

\* A key generator that hands out the high-water mark itself once it is set
NextRowId_reuse(seqno) == IF seqno = 0 THEN 1 ELSE seqno

\* id INTEGER PRIMARY KEY AUTOINCREMENT: one more than the largest id ever used
NextRowId(seqno) == seqno + 1

\* get_connection(): reuse the thread-local handle or open one.  Opening can
\* fail; the result says whether a handle is held afterwards and whether the
\* call raised.
get_connection(conn, fault) ==
    IF conn THEN [connection |-> TRUE, raised |-> FALSE]
    ELSE IF fault = "connect" THEN [connection |-> FALSE, raised |-> TRUE]
    ELSE [connection |-> TRUE, raised |-> FALSE]

\* An insert whose failure handler does not roll back: a fault of the engine
\* leaves a row without its label behind.
insert_row_partial(rows, seqno, conn, table_columns, insert_columns, user_data, prediction, prediction_time, fault) ==
    LET gc == get_connection(conn, fault) IN
    IF gc.raised
    THEN [rows |-> rows, seqno |-> seqno, connection |-> gc.connection,
          lastrowid |-> 0, error |-> "UnboundLocalError", reported |-> TRUE]
    ELSE IF ~(insert_columns \subseteq table_columns)
    THEN [rows |-> rows, seqno |-> seqno, connection |-> gc.connection,
          lastrowid |-> 0, error |-> "OperationalError", reported |-> TRUE]
    ELSE LET id  == NextRowId(seqno)
             row == [id              |-> id,
                     name            |-> user_data.name,
                     email           |-> user_data.email,
                     features        |-> user_data.features,
                     prediction      |-> IF fault = "execute" THEN "" ELSE prediction,
                     prediction_date |-> IF "prediction_date" \in insert_columns
                                         THEN prediction_time ELSE NULL]
         IN [rows |-> Append(rows, row), seqno |-> id, connection |-> gc.connection,
             lastrowid |-> IF fault = "execute" THEN 0 ELSE id,
             error |-> IF fault = "execute" THEN "OperationalError" ELSE "none",
             reported |-> fault = "execute"]

\* cursor.execute('INSERT INTO t (cols) VALUES ...') followed by conn.commit(),
\* or the except branch: st.error, conn.rollback(), raise.
\* A column the INSERT does not name takes the column default, which is NULL
\* for every column of both tables.
insert_row(rows, seqno, conn, table_columns, insert_columns, user_data, prediction, prediction_time, fault) ==
    LET gc == get_connection(conn, fault) IN
    IF gc.raised
    THEN \* conn was never bound: the handler's conn.rollback() raises
         [rows |-> rows, seqno |-> seqno, connection |-> gc.connection,
          lastrowid |-> 0, error |-> "UnboundLocalError", reported |-> TRUE]
    ELSE IF ~(insert_columns \subseteq table_columns) \/ fault = "execute"
    THEN [rows |-> rows, seqno |-> seqno, connection |-> gc.connection,
          lastrowid |-> 0, error |-> "OperationalError", reported |-> TRUE]
    ELSE LET id  == NextRowId(seqno)
             row == [id              |-> id,
                     name            |-> user_data.name,
                     email           |-> user_data.email,
                     features        |-> user_data.features,
                     prediction      |-> prediction,
                     prediction_date |-> IF "prediction_date" \in insert_columns
                                         THEN prediction_time ELSE NULL]
         IN [rows |-> Append(rows, row), seqno |-> id, connection |-> gc.connection,
             lastrowid |-> id, error |-> "none", reported |-> FALSE]

\* Database.save_diabetes_prediction
save_diabetes_prediction(user_data, prediction, prediction_time, fault) ==
    insert_row(diabetes_predictions, sqlite_sequence.diabetes, connection,
               DiabetesColumns, DiabetesInsertColumns, user_data, prediction,
               prediction_time, fault)

\* Database.save_heart_disease_prediction (the definition in effect)
save_heart_disease_prediction(user_data, prediction, prediction_time, fault) ==
    insert_row(heart_predictions, sqlite_sequence.heart, connection,
               HeartColumns, HeartInsertColumns, user_data, prediction,
               prediction_time, fault)

Table(d) == IF d = "diabetes" THEN diabetes_predictions ELSE heart_predictions

\* The rows of a table that satisfy the WHERE clause, as a set
Matching(rows, email) == {rows[i] : i \in {j \in 1..Len(rows) : rows[j].email = email}}

RowSet(rows) == {rows[i] : i \in 1..Len(rows)}

\* ORDER BY prediction_date DESC: every arrangement of the selected rows with
\* non-increasing prediction_date.  SQL leaves the order of rows with equal
\* keys to the engine.
OrderByDateDesc(S) ==
    {s \in [1..Cardinality(S) -> S] :
        /\ \A i, j \in 1..Cardinality(S) : i # j => s[i] # s[j]
        /\ \A i, j \in 1..Cardinality(S) :
              i < j => s[i].prediction_date >= s[j].prediction_date}

\* get_diabetes_predictions_by_email / get_heart_disease_predictions_by_email
get_predictions_by_email(d, email) == OrderByDateDesc(Matching(Table(d), email))

\* get_all_diabetes_predictions / get_all_heart_disease_predictions
get_all_predictions(d) == OrderByDateDesc(RowSet(Table(d)))

\* An initialisation that creates the tables anew
initialize_db_recreate(rows) == <<>>

\* initialize_db(): CREATE TABLE IF NOT EXISTS leaves an existing table and its
\* rows as they are.
initialize_db(rows) == rows

----------------------------------------------------------------------------
(* Inference adapter: src/app.py *)

\* The opaque classifier's predict(): a label, or Raises.
Raises == 2
classifier_predict(v) ==
    CASE v = "v0" -> 0
      [] v = "v1" -> 1
      [] OTHER    -> Raises

\* Confidence values are kept in thousandths: 1000 stands for 1.0.
PerMille == 1000

\* The fallback confidence 0.8
DefaultConfidence == 800

\* Class-1 probabilities a predict_proba row can hold, in thousandths; the row
\* is (1000 - p1, p1).
Probabilities == {0, 50, 500, 930, 1000}

\* Values decision_function can return (signed distances)
Scores == {-1000, -2, 0, 2, 1000}

\* What an element of input_data can be: a number, a text that is no number,
\* or None.
InputKinds == {"num", "text", "none"}

\* A loaded classifier: which optional methods it has, what predict returns
\* (or that it raises), its probability row and its decision value.
Classifiers == [has_proba : BOOLEAN, has_decision : BOOLEAN, predict : {0, 1, Raises}, p1 : Probabilities, score : Scores]

\* np.asarray(input_data, dtype=float): text raises ValueError, None becomes
\* NaN without an error.
asarray_unchecked(x) == "ok"
asarray_float(x) ==
    IF x = "text" THEN "ValueError" ELSE "ok"

\* [float(x) for x in input_data]: text raises ValueError, None raises
\* TypeError.
float_each(x) ==
    CASE x = "text" -> "ValueError"
      [] x = "none" -> "TypeError"
      [] OTHER      -> "ok"

\* 1 / (1 + np.exp(-decision_value)), rounded to thousandths; np.exp overflows
\* to inf for large arguments and the quotient is then 0.0.
sigmoid_identity(decision_value) == decision_value * PerMille
sigmoid(decision_value) ==
    CASE decision_value = -1000 -> 0
      [] decision_value = -2    -> 119
      [] decision_value = 0     -> 500
      [] decision_value = 2     -> 881
      [] decision_value = 1000  -> 1000

\* The hasattr chain shared by both adapters: which source the confidence is
\* taken from.
confidence_source_decision_first(m) ==
    IF m.has_decision THEN "decision_function"
    ELSE IF m.has_proba THEN "predict_proba"
    ELSE "default"
confidence_source(m) ==
    IF m.has_proba THEN "predict_proba"
    ELSE IF m.has_decision THEN "decision_function"
    ELSE "default"

\* prob_value, and the optional classifier methods invoked to obtain it
prob_value_class1(m, prediction) ==
    CASE confidence_source(m) = "predict_proba" ->
           [value |-> m.p1, calls |-> {"predict_proba"}]
      [] confidence_source(m) = "decision_function" ->
           [value |-> sigmoid(m.score), calls |-> {"decision_function"}]
      [] OTHER -> [value |-> DefaultConfidence, calls |-> {}]
prob_value(m, prediction) ==
    CASE confidence_source(m) = "predict_proba" ->
           [value |-> IF prediction = 1 THEN m.p1 ELSE PerMille - m.p1,
            calls |-> {"predict_proba"}]
      [] confidence_source(m) = "decision_function" ->
           [value |-> sigmoid(m.score), calls |-> {"decision_function"}]
      [] OTHER -> [value |-> DefaultConfidence, calls |-> {}]

\* The tuple an adapter returns, with the set of classifier methods it invoked
AdapterResult(label, confidence, calls) ==
    [label |-> label, confidence |-> confidence, calls |-> calls]

\* diabetes_prediction(input_data) on input of kind x with classifier m
diabetes_prediction_tuple(x, m) ==
    IF asarray_float(x) # "ok" THEN AdapterResult("Error in prediction", 0, {})
    ELSE IF m.predict = Raises
      THEN AdapterResult("Error in prediction", 0, {"predict"})
    ELSE LET pv == prob_value(m, m.predict) IN
         AdapterResult(IF m.predict = 0 THEN "Not Diabetic" ELSE "Diabetic",
                       pv.value, {"predict"} \cup pv.calls)

\* heart_disease_prediction(input_data) on input of kind x with classifier m;
\* the text of the exception that follows the prefix is left out.
heart_disease_prediction_tuple(x, m) ==
    IF float_each(x) = "ValueError"
      THEN AdapterResult("Error: Invalid input!", 0, {})
    ELSE IF float_each(x) # "ok" THEN AdapterResult("Unexpected Error", 0, {})
    ELSE IF m.predict = Raises
      THEN AdapterResult("Unexpected Error", 0, {"predict"})
    ELSE LET pv == prob_value(m, m.predict) IN
         AdapterResult(IF m.predict = 0 THEN "No Heart Disease"
                       ELSE "Heart Disease Detected",
                       pv.value, {"predict"} \cup pv.calls)

\* The classifier as the form's feature vector v meets it: the widgets deliver
\* numbers, and the label does not depend on the optional methods.
loaded_model(v) ==
    [has_proba |-> TRUE, has_decision |-> FALSE, predict |-> classifier_predict(v),
     p1 |-> 500, score |-> 0]

\* diabetes_prediction(input_data)[0]
diabetes_prediction(v) == diabetes_prediction_tuple("num", loaded_model(v)).label

\* heart_disease_prediction(input_data)[0]
heart_disease_prediction(v) == heart_disease_prediction_tuple("num", loaded_model(v)).label

prediction_of(d, v) ==
    IF d = "diabetes" THEN diabetes_prediction(v) ELSE heart_disease_prediction(v)

OutcomeLabels(d) ==
    IF d = "diabetes" THEN {"Not Diabetic", "Diabetic"}
    ELSE {"No Heart Disease", "Heart Disease Detected"}

----------------------------------------------------------------------------
(* Report: src/app.py generate_pdf_report *)

\* The characters of the strings an adapter can return
Text(diagnosis) ==
    CASE diagnosis = "Diabetic" -> <<"D","i","a","b","e","t","i","c">>
      [] diagnosis = "Not Diabetic" ->
           <<"N","o","t"," ","D","i","a","b","e","t","i","c">>
      [] diagnosis = "Heart Disease Detected" ->
           <<"H","e","a","r","t"," ","D","i","s","e","a","s","e"," ",
             "D","e","t","e","c","t","e","d">>
      [] diagnosis = "No Heart Disease" ->
           <<"N","o"," ","H","e","a","r","t"," ","D","i","s","e","a","s","e">>
      [] diagnosis = "Error in prediction" ->
           <<"E","r","r","o","r"," ","i","n"," ","p","r","e","d","i","c","t","i","o","n">>
      [] diagnosis = "Error: Invalid input!" ->
           <<"E","r","r","o","r",":"," ","I","n","v","a","l","i","d"," ",
             "i","n","p","u","t","!">>
      [] diagnosis = "Unexpected Error" ->
           <<"U","n","e","x","p","e","c","t","e","d"," ","E","r","r","o","r">>

\* Every string an adapter can return
Diagnoses == {"Diabetic", "Not Diabetic", "Heart Disease Detected", "No Heart Disease", "Error in prediction", "Error: Invalid input!", "Unexpected Error"}

\* sub in s, for Python strings: sub occurs in s as a contiguous substring
Contains(s, sub) ==
    \E i \in 1..(Len(s) - Len(sub) + 1) : SubSeq(s, i, i + Len(sub) - 1) = sub

\* Ways report generation can go: normally, or an exception inside reportlab
ReportFaults == {"none", "raise"}

\* diagnosis_color
diagnosis_color(diagnosis) ==
    IF \/ Contains(Text(diagnosis), <<"D","i","a","b","e","t","i","c">>)
       \/ Contains(Text(diagnosis), <<"D","i","s","e","a","s","e">>)
      THEN "red" ELSE "green"

\* recommendations, named by the first bullet of the list
recommendations(diagnosis, disease_type) ==
    IF disease_type = "diabetes"
      THEN IF Contains(Text(diagnosis), <<"D","i","a","b","e","t","i","c">>)
             THEN "Monitor blood glucose levels regularly"
             ELSE "Maintain a healthy weight"
      ELSE IF Contains(Text(diagnosis), <<"D","e","t","e","c","t","e","d">>)
             THEN "Consult with a cardiologist promptly"
             ELSE "Maintain a heart-healthy diet rich in fruits, vegetables, and lean proteins"

\* generate_pdf_report(name, email, diagnosis, disease_type, user_data): the
\* parts of the document that depend on the diagnosis; any exception yields
\* (None, None).
generate_pdf_report(diagnosis, disease_type, fault) ==
    IF fault # "none"
      THEN [pdf |-> FALSE, diagnosis_color |-> "none", recommendations |-> "none"]
      ELSE [pdf |-> TRUE,
            diagnosis_color |-> diagnosis_color(diagnosis),
            recommendations |-> recommendations(diagnosis, disease_type)]

-----------------------------------------------------------------------------
(* Notifier: src/app.py send_email *)

\* Where a send can fail: generating the report, composing the message,
\* smtplib.SMTP(...), starttls(), login(), sendmail().
MailFaults == {"none", "pdf", "compose", "connect", "starttls", "login", "sendmail"}

\* The steps inside send_email's try block whose exception ends the send
SendFailures == {"compose", "connect", "starttls", "login", "sendmail"}

\* A send_email whose handler lets an authentication error through
send_email_auth_escapes(fault) ==
    [sent     |-> fault \notin SendFailures,
     attached |-> fault = "none",
     raised   |-> fault = "login",
     errors   |-> IF fault = "pdf" THEN {"Error generating PDF"}
                  ELSE IF fault \in SendFailures \ {"login"} THEN {"Error sending email"}
                  ELSE {}]

\* send_email(...): generate_pdf_report swallows its own failure and returns
\* (None, None), after which the message goes out without attachment; any
\* exception of composing or of the SMTP dialogue is caught by the function's
\* except Exception and turned into False.
send_email(fault) ==
    [sent     |-> fault \notin SendFailures,
     attached |-> fault = "none",
     raised   |-> FALSE,
     errors   |-> IF fault = "pdf" THEN {"Error generating PDF"}
                  ELSE IF fault \in SendFailures THEN {"Error sending email"}
                  ELSE {}]

----------------------------------------------------------------------------
(* Prediction pipeline: src/app.py main() *)

NoRun ==
    [disease |-> "diabetes", name |-> <<>>, email |-> <<>>, features |-> "v0",
     pressed |-> FALSE, diagnosis |-> "", displayed |-> "",
     nInfer |-> 0, nAppend |-> 0, nSend |-> 0, emailed |-> FALSE,
     lastrowid |-> 0, fault |-> "none", mail_fault |-> "none", raised |-> "none",
     notified |-> "", attached |-> FALSE,
     messages |-> {},
     outcome |-> "none",
     rows0 |-> <<0, 0>>]

\* A name check that only asks for a non-empty name
name_valid_nonempty(name) == name # <<>>

\* Name check of both prediction forms
name_valid(name) == isalpha(replace_spaces(name))

\* An email check that only asks for an '@'
email_valid_at_only(email) == \E i \in 1..Len(email) : email[i] = "@"

\* Email check of both prediction forms
email_valid(email) == endswith(email, email_type)

\* A browser session at its first script run, after the three session keys
\* were initialised: the sidebar shows Home, no button has been pressed.
NewSession ==
    [selected |-> "Home", prediction_tab |-> "None", prediction_confirmed |-> FALSE,
     sidebar_selection |-> "Home", prediction_choice |-> "None", button |-> "none",
     at |-> "sync", shown |-> "nothing", rendered |-> "none", warned |-> FALSE]

\* No function call in progress
NoCall == [fn |-> "none"]

\* No worker thread started
NoWorkers == [threads |-> <<>>, writer |-> 0]

NoResult == [op |-> "none", disease |-> "diabetes", email |-> <<>>, rows |-> <<>>]

Init ==
    /\ diabetes_predictions = <<>>
    /\ heart_predictions = <<>>
    /\ sqlite_sequence = [diabetes |-> 0, heart |-> 0]
    /\ connection = TRUE
    /\ models_loaded \in BOOLEAN
    /\ pc = "idle"
    /\ run = NoRun
    /\ result = NoResult
    /\ runs = 0
    /\ call = NoCall
    /\ workers = NoWorkers
    /\ user_version = 0
    /\ session = NewSession

Idle == pc \in {"idle", "done"}

\* A script run whose Predict branch does not look at models_loaded
ScriptRun_no_model_check(d, name, email, v, pressed) ==
    /\ Idle
    /\ (name_valid(name) /\ email_valid(email) /\ pressed) => runs < MaxRuns
    \* the feature widgets are rendered only below a valid name and email
    /\ ~(name_valid(name) /\ email_valid(email)) => v = NoRun.features
    /\ result' = NoResult
    /\ LET r0 == [NoRun EXCEPT !.disease = d, !.name = name, !.email = email,
                               !.features = v, !.pressed = pressed,
                               !.rows0 = <<Len(diabetes_predictions),
                                           Len(heart_predictions)>>]
       IN
       IF name = <<>> \/ email = <<>>
       THEN /\ run' = [r0 EXCEPT !.messages = {"Please enter both Name and Email to proceed!"},
                                 !.outcome = "Failed@validate"]
            /\ pc' = "done"
       ELSE IF ~name_valid(name)
       THEN /\ run' = [r0 EXCEPT !.messages = {"Invalid name"},
                                 !.outcome = "Failed@validate"]
            /\ pc' = "done"
       ELSE IF ~email_valid(email)
       THEN /\ run' = [r0 EXCEPT !.messages = {"Invalid email address!"},
                                 !.outcome = "Failed@validate"]
            /\ pc' = "done"
       ELSE IF ~pressed
       THEN /\ run' = [r0 EXCEPT !.outcome = "Collecting"]
            /\ pc' = "done"
       ELSE /\ run' = [r0 EXCEPT !.outcome = "Validated"]
            /\ pc' = "infer1"
    /\ runs' = IF pc' = "infer1" THEN runs + 1 ELSE runs
    /\ UNCHANGED <<diabetes_predictions, heart_predictions, sqlite_sequence,
                   connection, models_loaded>>
    /\ UNCHANGED aux

\* One execution of the script on a disease page with the given widget values,
\* up to the point where the pipeline starts (or the run ends).
ScriptRun(d, name, email, v, pressed) ==
    /\ Idle
    /\ (name_valid(name) /\ email_valid(email) /\ pressed /\ models_loaded)
          => runs < MaxRuns
    \* the feature widgets are rendered only below a valid name and email
    /\ ~(name_valid(name) /\ email_valid(email)) => v = NoRun.features
    /\ result' = NoResult
    /\ LET r0 == [NoRun EXCEPT !.disease = d, !.name = name, !.email = email,
                               !.features = v, !.pressed = pressed,
                               !.rows0 = <<Len(diabetes_predictions),
                                           Len(heart_predictions)>>]
       IN
       IF name = <<>> \/ email = <<>>
       THEN /\ run' = [r0 EXCEPT !.messages = {"Please enter both Name and Email to proceed!"},
                                 !.outcome = "Failed@validate"]
            /\ pc' = "done"
       ELSE IF ~name_valid(name)
       THEN /\ run' = [r0 EXCEPT !.messages = {"Invalid name"},
                                 !.outcome = "Failed@validate"]
            /\ pc' = "done"
       ELSE IF ~email_valid(email)
       THEN /\ run' = [r0 EXCEPT !.messages = {"Invalid email address!"},
                                 !.outcome = "Failed@validate"]
            /\ pc' = "done"
       ELSE IF ~pressed
       THEN /\ run' = [r0 EXCEPT !.outcome = "Collecting"]
            /\ pc' = "done"
       ELSE IF ~models_loaded
       THEN /\ run' = [r0 EXCEPT !.messages = {"Model loading error. Unable to make prediction."},
                                 !.outcome = "Failed@models"]
            /\ pc' = "done"
       ELSE /\ run' = [r0 EXCEPT !.outcome = "Validated"]
            /\ pc' = "infer1"
    /\ runs' = IF pc' = "infer1" THEN runs + 1 ELSE runs
    /\ UNCHANGED <<diabetes_predictions, heart_predictions, sqlite_sequence,
                   connection, models_loaded>>
    /\ UNCHANGED aux

\* diagnosis, _ = diabetes_prediction(input_data)  (first call)
FirstInference ==
    /\ pc = "infer1"
    /\ run' = [run EXCEPT !.diagnosis = prediction_of(run.disease, run.features),
                          !.nInfer = @ + 1,
                          !.outcome = "Inferred"]
    /\ pc' = "display"
    /\ UNCHANGED <<diabetes_predictions, heart_predictions, sqlite_sequence,
                   connection, models_loaded, result, runs>>
    /\ UNCHANGED aux

\* Progress bar, "Prediction Complete!", the coloured result line, the report table
DisplayResult ==
    /\ pc = "display"
    /\ run' = [run EXCEPT !.displayed = run.diagnosis,
                          !.messages = @ \cup {"Prediction Complete!"}]
    /\ pc' = "infer2"
    /\ UNCHANGED <<diabetes_predictions, heart_predictions, sqlite_sequence,
                   connection, models_loaded, result, runs>>
    /\ UNCHANGED aux

\* A second call that is handed the form's default values instead of input_data
SecondInference_default_input ==
    /\ pc = "infer2"
    /\ run' = [run EXCEPT !.diagnosis = prediction_of(run.disease, NoRun.features),
                          !.nInfer = @ + 1]
    /\ pc' = "save"
    /\ UNCHANGED <<diabetes_predictions, heart_predictions, sqlite_sequence,
                   connection, models_loaded, result, runs>>
    /\ UNCHANGED aux

\* diagnosis, _ = diabetes_prediction(input_data)  (second call, before the save)
SecondInference ==
    /\ pc = "infer2"
    /\ run' = [run EXCEPT !.diagnosis = prediction_of(run.disease, run.features),
                          !.nInfer = @ + 1]
    /\ pc' = "save"
    /\ UNCHANGED <<diabetes_predictions, heart_predictions, sqlite_sequence,
                   connection, models_loaded, result, runs>>
    /\ UNCHANGED aux

\* db.save_*_prediction(user_data, diagnosis); st.success("Prediction saved to database!")
SavePrediction ==
    /\ pc = "save"
    /\ \E fault \in StoreFaults, t \in Times :
         LET user_data == [name |-> run.name, email |-> run.email,
                           features |-> run.features]
             r == IF run.disease = "diabetes"
                  THEN save_diabetes_prediction(user_data, run.diagnosis, t, fault)
                  ELSE save_heart_disease_prediction(user_data, run.diagnosis, t, fault)
         IN
         /\ IF run.disease = "diabetes"
            THEN /\ diabetes_predictions' = r.rows
                 /\ sqlite_sequence' = [sqlite_sequence EXCEPT !.diabetes = r.seqno]
                 /\ UNCHANGED heart_predictions
            ELSE /\ heart_predictions' = r.rows
                 /\ sqlite_sequence' = [sqlite_sequence EXCEPT !.heart = r.seqno]
                 /\ UNCHANGED diabetes_predictions
         /\ connection' = r.connection
         /\ IF r.error # "none"
            THEN /\ run' = [run EXCEPT !.nAppend = @ + 1,
                                      !.fault = fault,
                                      !.raised = r.error,
                                      !.messages = @ \cup {"Error saving prediction"},
                                      !.outcome = "Failed@persist"]
                 /\ pc' = "done"
            ELSE /\ run' = [run EXCEPT !.nAppend = @ + 1,
                                      !.fault = fault,
                                      !.lastrowid = r.lastrowid,
                                      !.messages = @ \cup {"Prediction saved to database!"},
                                      !.outcome = "Persisted"]
                 /\ pc' = "send"
    /\ UNCHANGED <<models_loaded, result, runs>>
    /\ UNCHANGED aux

\* A notification stage that takes the run's row back when the email fails
SendEmail_rollback ==
    /\ pc = "send"
    /\ \E fault \in MailFaults :
         LET r == send_email(fault) IN
         /\ run' = [run EXCEPT !.nSend = @ + 1,
                               !.mail_fault = fault,
                               !.notified = run.diagnosis,
                               !.attached = r.sent /\ r.attached,
                               !.emailed = r.sent,
                               !.raised = IF r.raised THEN "send_email" ELSE @,
                               !.messages = @ \cup r.errors \cup
                                    (IF r.raised THEN {}
                                     ELSE IF r.sent
                                     THEN {"Email with PDF report sent successfully!"}
                                     ELSE {"Could not send email. Please check your email address."}),
                               !.outcome = IF r.sent THEN "Notified" ELSE "Failed@notify"]
         /\ IF r.sent \/ run.disease = "diabetes"
            THEN heart_predictions' = heart_predictions
            ELSE heart_predictions' =
                     SubSeq(heart_predictions, 1, Len(heart_predictions) - 1)
    /\ pc' = "done"
    /\ UNCHANGED <<diabetes_predictions, sqlite_sequence,
                   connection, models_loaded, result, runs>>
    /\ UNCHANGED aux

\* if send_email(...): st.success(...) else: st.warning(...); main() has no
\* handler of its own around the call.
SendEmail ==
    /\ pc = "send"
    /\ \E fault \in MailFaults :
         LET r == send_email(fault) IN
         run' = [run EXCEPT !.nSend = @ + 1,
                            !.mail_fault = fault,
                            !.notified = run.diagnosis,
                            !.attached = r.sent /\ r.attached,
                            !.emailed = r.sent,
                            !.raised = IF r.raised THEN "send_email" ELSE @,
                            !.messages = @ \cup r.errors \cup
                                 (IF r.raised THEN {}
                                  ELSE IF r.sent
                                  THEN {"Email with PDF report sent successfully!"}
                                  ELSE {"Could not send email. Please check your email address."}),
                            !.outcome = IF r.sent THEN "Notified" ELSE "Failed@notify"]
    /\ pc' = "done"
    /\ UNCHANGED <<diabetes_predictions, heart_predictions, sqlite_sequence,
                   connection, models_loaded, result, runs>>
    /\ UNCHANGED aux

----------------------------------------------------------------------------
(* Store operations issued between pipeline runs.  A query is made by a     *)
(* script run of its own, in which no Predict button is pressed; the locals *)
(* of the previous run are gone.                                            *)

QueryByEmail(d, email) ==
    /\ Idle
    /\ \E rows \in get_predictions_by_email(d, email) :
         result' = [op |-> "by_email", disease |-> d, email |-> email, rows |-> rows]
    /\ connection' = get_connection(connection, "none").connection
    /\ run' = NoRun
    /\ pc' = "idle"
    /\ UNCHANGED <<diabetes_predictions, heart_predictions, sqlite_sequence,
                   models_loaded, runs>>
    /\ UNCHANGED aux

QueryAll(d) ==
    /\ Idle
    /\ \E rows \in get_all_predictions(d) :
         result' = [op |-> "all", disease |-> d, email |-> <<>>, rows |-> rows]
    /\ connection' = get_connection(connection, "none").connection
    /\ run' = NoRun
    /\ pc' = "idle"
    /\ UNCHANGED <<diabetes_predictions, heart_predictions, sqlite_sequence,
                   models_loaded, runs>>
    /\ UNCHANGED aux

\* db.initialize_db(): two CREATE TABLE IF NOT EXISTS statements and a commit
InitializeDb ==
    /\ Idle
    /\ diabetes_predictions' = initialize_db(diabetes_predictions)
    /\ heart_predictions' = initialize_db(heart_predictions)
    /\ connection' = get_connection(connection, "none").connection
    /\ user_version' = user_version    \* no statement records a schema version
    /\ UNCHANGED <<sqlite_sequence, models_loaded, pc, run, result, runs>>
    /\ UNCHANGED <<call, workers, session>>

CloseConnection ==
    /\ Idle
    /\ connection' = FALSE
    /\ UNCHANGED <<diabetes_predictions, heart_predictions, sqlite_sequence,
                   models_loaded, pc, run, result, runs>>
    /\ UNCHANGED aux

RefreshConnection ==
    /\ Idle
    /\ connection' = get_connection(FALSE, "none").connection
    /\ UNCHANGED <<diabetes_predictions, heart_predictions, sqlite_sequence,
                   models_loaded, pc, run, result, runs>>
    /\ UNCHANGED aux

Next ==
    \/ \E d \in Diseases, name \in Names, email \in Emails, v \in FeatureVectors,
          pressed \in BOOLEAN :
            ScriptRun(d, name, email, v, pressed)
    \/ FirstInference
    \/ DisplayResult
    \/ SecondInference
    \/ SavePrediction
    \/ SendEmail
    \/ \E d \in Diseases, email \in Emails : QueryByEmail(d, email)
    \/ \E d \in Diseases : QueryAll(d)
    \/ InitializeDb
    \/ CloseConnection
    \/ RefreshConnection

Spec == Init /\ [][Next]_vars

----------------------------------------------------------------------------
(* Vocabulary of the properties *)

\* The run's inference was attempted and did not yield an outcome label
InferenceFailed == run.nInfer > 0 /\ run.diagnosis \notin OutcomeLabels(run.disease)

\* The run's inference yielded an outcome label
InferenceSucceeded == run.nInfer > 0 /\ run.diagnosis \in OutcomeLabels(run.disease)

\* Both tables have as many rows as when the run started
RowCountsAsAtStart ==
    /\ Len(diabetes_predictions) = run.rows0[1]
    /\ Len(heart_predictions) = run.rows0[2]

RowCountAtStart(d) == IF d = "diabetes" THEN run.rows0[1] ELSE run.rows0[2]

StoreUnchanged ==
    /\ diabetes_predictions' = diabetes_predictions
    /\ heart_predictions' = heart_predictions
    /\ sqlite_sequence' = sqlite_sequence

NoDuplicates(s) == \A i, j \in 1..Len(s) : i # j => s[i] # s[j]

\* A row appended later never comes after a row appended earlier; ids grow
\* with every append to a table.
NewestFirst(s) == \A i, j \in 1..Len(s) : i < j => s[i].id > s[j].id

----------------------------------------------------------------------------
(* Properties *)

\* C1: when inference fails in a pipeline run, the run aborts at the inference
\* stage: once the run is over no email was sent and both tables have the row
\* count they had before the run.
C1_InferenceFailureAborts ==
    (pc = "done" /\ InferenceFailed) => (run.nSend = 0 /\ RowCountsAsAtStart)

\* C2: a pipeline run in which validation and inference succeed (and the
\* storage engine raises no fault of its own) adds exactly one row to the
\* disease's table, and every answer of a query by the submitted email issued
\* right afterwards contains that row.
C2_SuccessfulRunAddsOneRow ==
    (pc = "done" /\ InferenceSucceeded /\ run.fault = "none") =>
        /\ Len(Table(run.disease)) = RowCountAtStart(run.disease) + 1
        /\ \A rows \in get_predictions_by_email(run.disease, run.email) :
              \E i \in 1..Len(rows) :
                  /\ rows[i].id = run.lastrowid
                  /\ rows[i].email = run.email
                  /\ rows[i].prediction = run.diagnosis

\* C3: a query by email returns exactly the rows of the table whose email
\* equals the argument, a query for all rows returns every row, and both
\* return them newest first.
C3_QueryNewestFirst ==
    /\ result.op = "by_email" =>
          /\ RowSet(result.rows) = Matching(Table(result.disease), result.email)
          /\ NoDuplicates(result.rows)
          /\ NewestFirst(result.rows)
    /\ result.op = "all" =>
          /\ RowSet(result.rows) = RowSet(Table(result.disease))
          /\ NoDuplicates(result.rows)
          /\ NewestFirst(result.rows)

\* C4: every row of either table carries a non-null prediction timestamp read
\* from the server clock, together with the feature snapshot and the label.
C4_RowsCarryTimestamp ==
    \A d \in Diseases : \A i \in 1..Len(Table(d)) :
        /\ Table(d)[i].prediction_date # NULL
        /\ Table(d)[i].prediction_date \in Times
        /\ Table(d)[i].features \in FeatureVectors

\* The claim's own reading of a bad name: nothing but spaces, or some character
\* other than a letter or a space
BadName(name) ==
    LET t == SelectSeq(name, LAMBDA c : c # " ")
    IN  t = <<>> \/ \E i \in 1..Len(t) : t[i] \notin Alpha

\* The claim's own reading of a bad email: empty, or none of the three
\* suffixes closes it
BadEmail(email) ==
    \/ email = <<>>
    \/ \A x \in {GMAIL, YAHOO, OUTLOOK} :
          ~ \E k \in 0..Len(email) : SubSeq(email, k + 1, Len(email)) = x

\* The run called no classifier, attempted no append and no send, and left
\* both tables as they were
NoPipelineEffect ==
    /\ run.nInfer = 0
    /\ run.nAppend = 0
    /\ run.nSend = 0
    /\ run.diagnosis = ""
    /\ RowCountsAsAtStart

\* C5: a run submitted with a name that is empty after removing spaces, or
\* that contains a non-alphabetic character, is rejected by validation and
\* performs no inference, no append and no email send, in both flows.
C5_InvalidNameRejected ==
    (run.outcome # "none" /\ BadName(run.name)) =>
        /\ pc = "done"
        /\ run.outcome = "Failed@validate"
        /\ NoPipelineEffect

C5_Witness ==
    /\ pc = "done"
    /\ run.pressed
    /\ run.name = <<"J","o","h","n","3">>
    /\ ~BadEmail(run.email)
    /\ run.outcome = "Failed@validate"
    /\ Len(heart_predictions) >= 1

\* C6: a run submitted with an email that is empty or ends with none of
\* @gmail.com, @yahoo.com, @outlook.com is rejected by validation and performs
\* no inference, no append and no email send, in both flows.
C6_InvalidEmailRejected ==
    (run.outcome # "none" /\ BadEmail(run.email)) =>
        /\ pc = "done"
        /\ run.outcome = "Failed@validate"
        /\ NoPipelineEffect

C6_Witness ==
    /\ pc = "done"
    /\ run.pressed
    /\ ~BadName(run.name)
    /\ run.email = <<"u">> \o RANDOM
    /\ run.outcome = "Failed@validate"
    /\ Len(heart_predictions) >= 1

\* C7: the notification stage leaves both tables exactly as they are, whether
\* the send succeeds or fails; it never raises, and a failed send is reported
\* to the user.
C7_NotificationLeavesStore ==
    [][pc = "send" =>
          /\ StoreUnchanged
          /\ pc' = "done"
          /\ run'.raised = "none"
          /\ run'.nSend = run.nSend + 1
          /\ ~run'.emailed =>
                "Could not send email. Please check your email address."
                    \in run'.messages]_vars

C7_Witness ==
    /\ pc = "done"
    /\ run.nSend = 1
    /\ ~run.emailed
    /\ run.outcome = "Failed@notify"
    /\ \E i \in 1..Len(Table(run.disease)) :
          /\ Table(run.disease)[i].id = run.lastrowid
          /\ Table(run.disease)[i].email = run.email

\* C8: when the append fails after a successful inference, the store holds
\* exactly what it held before the attempt, the failure is reported, and the
\* diagnosis of the run is still on display.
C8_FailedAppendIsAllOrNothing ==
    [][(pc = "save" /\ InferenceSucceeded /\ run'.outcome = "Failed@persist") =>
          /\ StoreUnchanged
          /\ "Error saving prediction" \in run'.messages
          /\ run'.displayed = run.diagnosis
          /\ run'.displayed \in OutcomeLabels(run.disease)]_vars

C8_Witness ==
    /\ pc = "done"
    /\ run.outcome = "Failed@persist"
    /\ run.disease = "heart"
    /\ run.fault = "execute"
    /\ run.displayed \in OutcomeLabels("heart")
    /\ Len(heart_predictions) >= 1

\* C9: no step of any store operation or pipeline stage removes or changes a
\* committed row: each table only ever grows at its end.
C9_AppendOnly ==
    [][/\ Len(diabetes_predictions') >= Len(diabetes_predictions)
       /\ Len(heart_predictions') >= Len(heart_predictions)
       /\ \A i \in 1..Len(diabetes_predictions) :
             diabetes_predictions'[i] = diabetes_predictions[i]
       /\ \A i \in 1..Len(heart_predictions) :
             heart_predictions'[i] = heart_predictions[i]]_vars

C9_Witness ==
    /\ Len(heart_predictions) >= 2
    /\ result.op = "all"
    /\ Len(result.rows) >= 2
    /\ ~connection

\* C10: the ids of a table are pairwise distinct, and the id a successful
\* append returns is greater than the id of every row the table held before.
C10_IdsUniqueAndIncreasing ==
    [][/\ \A i, j \in 1..Len(diabetes_predictions') :
             i # j => diabetes_predictions'[i].id # diabetes_predictions'[j].id
       /\ \A i, j \in 1..Len(heart_predictions') :
             i # j => heart_predictions'[i].id # heart_predictions'[j].id
       /\ (pc = "save" /\ pc' = "send") =>
             /\ \A i \in 1..Len(Table(run.disease)) :
                   run'.lastrowid > Table(run.disease)[i].id
             /\ \E i \in 1..Len(heart_predictions') :
                   /\ run.disease = "heart"
                   /\ heart_predictions'[i].id = run'.lastrowid]_vars

C10_Witness ==
    /\ pc = "send"
    /\ Len(heart_predictions) >= 2
    /\ run.lastrowid = heart_predictions[Len(heart_predictions)].id
    /\ run.lastrowid > heart_predictions[1].id

\* C11: within a run the stages come in the order validate, infer, persist,
\* notify, and a stage is attempted only after every earlier stage of the run
\* succeeded: inference only for a valid name and email, the append only
\* after an inference that yielded an outcome label, the send only after the
\* run's append committed; a failed stage ends the run.
C11_StagesInOrder ==
    /\ run.nInfer > 0 => (~BadName(run.name) /\ ~BadEmail(run.email))
    /\ run.nAppend > 0 => InferenceSucceeded
    /\ run.nSend > 0 =>
          /\ InferenceSucceeded
          /\ run.nAppend = 1
          /\ \E i \in 1..Len(Table(run.disease)) :
                Table(run.disease)[i].id = run.lastrowid
    /\ run.outcome \in {"Failed@validate", "Failed@models", "Failed@persist",
                        "Failed@notify"} => pc = "done"

\* C12: one form submission invokes inference at most once and performs at
\* most one append and at most one email send.
C12_NoStageRepeated ==
    /\ run.nInfer <= 1
    /\ run.nAppend <= 1
    /\ run.nSend <= 1

-----------------------------------------------------------------------------
(* Email checks of the two places that take an address *)

\* Addresses typed into an email box, beyond those of the prediction runs
TypedEmails ==
    Emails \cup { <<"a","@","b">> \o GMAIL,        \* "a@b@gmail.com"
                  GMAIL,                           \* "@gmail.com"
                  <<"a","@","b">>,                 \* "a@b"
                  <<"a",".","b">> }                \* "a.b"

\* The index of the first c in s
find(s, c) == CHOOSE i \in 1..Len(s) : s[i] = c /\ \A j \in 1..(i - 1) : s[j] # c

\* s.split("@")[1] for an s that holds an "@": what stands between the first
\* "@" and the next one, or the end
split_at_1(s) ==
    LET rest == SubSeq(s, find(s, "@") + 1, Len(s)) IN
    IF Contains(rest, <<"@">>) THEN SubSeq(rest, 1, find(rest, "@") - 1) ELSE rest

\* The prediction form lets a submission through: not (not name or not email),
\* then email.endswith(email_type)
form_accepts_email(email) == email # <<>> /\ email_valid(email)

\* history_email and "@" in history_email and "." in history_email.split("@")[1]
history_accepts_email(history_email) ==
    /\ history_email # <<>>
    /\ Contains(history_email, <<"@">>)
    /\ Contains(split_at_1(history_email), <<".">>)

-----------------------------------------------------------------------------
(* Direct calls of the adapters and of the report generator, one at a time *)

adapter_tuple(d, x, m) ==
    IF d = "diabetes" THEN diabetes_prediction_tuple(x, m)
    ELSE heart_disease_prediction_tuple(x, m)

CallDiabetesPrediction(x, m) ==
    /\ call.fn = "none"
    /\ call' = [fn |-> "prediction", disease |-> "diabetes", input |-> x, model |-> m,
                out |-> diabetes_prediction_tuple(x, m)]
    /\ UNCHANGED <<diabetes_predictions, heart_predictions, sqlite_sequence,
                   connection, models_loaded, pc, run, result, runs, workers, user_version, session>>

CallHeartDiseasePrediction(x, m) ==
    /\ call.fn = "none"
    /\ call' = [fn |-> "prediction", disease |-> "heart", input |-> x, model |-> m,
                out |-> heart_disease_prediction_tuple(x, m)]
    /\ UNCHANGED <<diabetes_predictions, heart_predictions, sqlite_sequence,
                   connection, models_loaded, pc, run, result, runs, workers, user_version, session>>

CallGeneratePdfReport(diagnosis, disease_type, fault) ==
    /\ call.fn = "none"
    /\ call' = [fn |-> "report", disease |-> disease_type, input |-> diagnosis,
                fault |-> fault,
                out |-> generate_pdf_report(diagnosis, disease_type, fault)]
    /\ UNCHANGED <<diabetes_predictions, heart_predictions, sqlite_sequence,
                   connection, models_loaded, pc, run, result, runs, workers, user_version, session>>

\* Longest history handed to the summary metric
MaxHistory == 2

\* The labels a prediction column can hold: what the adapter of d returns
StoredLabels(d) ==
    IF d = "diabetes" THEN {"Not Diabetic", "Diabetic", "Error in prediction"}
    ELSE {"No Heart Disease", "Heart Disease Detected", "Unexpected Error"}

\* Non-empty histories: the prediction column of the rows a lookup returned
Histories(d) == UNION {[1..n -> StoredLabels(d)] : n \in 1..MaxHistory}

\* history_data['prediction'].value_counts().get(key, 0)
value_count(history, key) == Cardinality({i \in 1..Len(history) : history[i] = key})

\* The keys the two history tabs count by.  The diabetes tab asks for the
\* integers 1 and 0, which equal no string; they are written "1" and "0".
positive_key(d) == IF d = "diabetes" THEN "1" ELSE "Heart Disease Detected"

negative_key(d) == IF d = "diabetes" THEN "0" ELSE "No Heart Disease"

\* The summary metric of a history tab: value and the count behind its delta
history_metric(d, history) ==
    LET positive == value_count(history, positive_key(d))
        negative == value_count(history, negative_key(d))
    IN [total_user_records |-> positive + negative, positive |-> positive]

CallHistoryMetric(d, history) ==
    /\ call.fn = "none"
    /\ call' = [fn |-> "history_metric", disease |-> d, input |-> history,
                out |-> history_metric(d, history)]
    /\ UNCHANGED <<diabetes_predictions, heart_predictions, sqlite_sequence,
                   connection, models_loaded, pc, run, result, runs, workers, user_version, session>>

\* The same address typed into the prediction form and into the history tab
CallEmailChecks(email) ==
    /\ call.fn = "none"
    /\ call' = [fn |-> "email_checks", input |-> email,
                out |-> [form |-> form_accepts_email(email),
                         history |-> history_accepts_email(email)]]
    /\ UNCHANGED <<diabetes_predictions, heart_predictions, sqlite_sequence,
                   connection, models_loaded, pc, run, result, runs, workers, user_version, session>>

Return ==
    /\ call.fn # "none"
    /\ call' = NoCall
    /\ UNCHANGED <<diabetes_predictions, heart_predictions, sqlite_sequence,
                   connection, models_loaded, pc, run, result, runs, workers, user_version, session>>

CallNext ==
    \/ \E x \in InputKinds, m \in Classifiers : CallDiabetesPrediction(x, m)
    \/ \E x \in InputKinds, m \in Classifiers : CallHeartDiseasePrediction(x, m)
    \/ \E diagnosis \in Diagnoses, d \in Diseases, fault \in ReportFaults :
          CallGeneratePdfReport(diagnosis, d, fault)
    \/ \E email \in TypedEmails : CallEmailChecks(email)
    \/ \E d \in Diseases : \E history \in Histories(d) : CallHistoryMetric(d, history)
    \/ Return

CallSpec == Init /\ [][CallNext]_vars

\* An adapter call whose input was coerced and whose classifier answered
Predicted ==
    /\ call.fn = "prediction"
    /\ call.input # "text"
    /\ ~(call.disease = "heart" /\ call.input = "none")
    /\ call.model.predict \in {0, 1}

\* The probability the classifier gives to the class it predicted
ProbabilityOfPredicted ==
    IF call.model.predict = 1 THEN call.model.p1 ELSE PerMille - call.model.p1

\* C13: when the classifier exposes class probabilities, the adapter returns
\* the label of the predicted class (1: "Diabetic" / "Heart Disease Detected",
\* 0: "Not Diabetic" / "No Heart Disease") together with the probability the
\* classifier gives to that predicted class.
C13_LabelAndProbabilityOfPredicted ==
    (Predicted /\ call.model.has_proba) =>
        /\ call.out.label =
             (CASE call.disease = "diabetes" /\ call.model.predict = 1 -> "Diabetic"
                [] call.disease = "diabetes" /\ call.model.predict = 0 -> "Not Diabetic"
                [] call.disease = "heart" /\ call.model.predict = 1 -> "Heart Disease Detected"
                [] call.disease = "heart" /\ call.model.predict = 0 -> "No Heart Disease")
        /\ call.out.confidence = ProbabilityOfPredicted

\* Predicted class 0 with probability 0.95 yields ("Not Diabetic", 0.95).
C13_Witness ==
    /\ Predicted /\ call.model.has_proba
    /\ call.disease = "diabetes"
    /\ call.model.predict = 0 /\ call.model.p1 = 50
    /\ call.out.label = "Not Diabetic" /\ call.out.confidence = 950

\* C14: the confidence comes from exactly one source, by strict priority: the
\* class probability when the classifier has predict_proba; otherwise the
\* sigmoid of the decision score when it has decision_function; otherwise the
\* constant 0.8. A lower-priority source is not consulted.
C14_ConfidencePriority ==
    Predicted =>
        /\ call.model.has_proba =>
             /\ call.out.confidence = ProbabilityOfPredicted
             /\ call.out.calls = {"predict", "predict_proba"}
        /\ (~call.model.has_proba /\ call.model.has_decision) =>
             /\ call.out.confidence = sigmoid(call.model.score)
             /\ call.out.calls = {"predict", "decision_function"}
        /\ (~call.model.has_proba /\ ~call.model.has_decision) =>
             /\ call.out.confidence = 800
             /\ call.out.calls = {"predict"}

\* A classifier with both optional methods, whose two sources disagree
C14_Witness ==
    /\ Predicted
    /\ call.model.has_proba /\ call.model.has_decision
    /\ call.model.p1 = 930 /\ call.model.predict = 1 /\ call.model.score = -2
    /\ call.out.confidence = 930

\* C15: whatever the input and whichever optional methods the classifier has,
\* the confidence an adapter returns lies between 0 and 1.
C15_ConfidenceInUnitInterval ==
    call.fn = "prediction" =>
        /\ call.out.confidence >= 0
        /\ call.out.confidence <= 1000

\* A decision-function classifier with a large score: confidence 1.0
C15_Witness ==
    /\ Predicted
    /\ ~call.model.has_proba /\ call.model.has_decision
    /\ call.model.score = 1000
    /\ call.out.confidence = 1000

\* The input holds a value that float conversion rejects
NotCoercible ==
    /\ call.fn = "prediction"
    /\ \/ call.input = "text"
       \/ call.disease = "heart" /\ call.input = "none"

ReportedOutcome ==
    /\ call.fn = "report"
    /\ call.out.pdf
    /\ call.input \in OutcomeLabels(call.disease)

\* C17: the report's diagnosis line is red exactly when the outcome is positive
\* ("Diabetic", "Heart Disease Detected") and green when it is negative
\* ("Not Diabetic", "No Heart Disease").
C17_RedExactlyWhenPositive ==
    ReportedOutcome =>
        /\ call.input \in {"Diabetic", "Heart Disease Detected"} =>
             call.out.diagnosis_color = "red"
        /\ call.input \in {"Not Diabetic", "No Heart Disease"} =>
             call.out.diagnosis_color = "green"

\* C18: the report's recommendation list follows the polarity of the outcome:
\* the management list of the disease for a positive outcome, its prevention
\* list for a negative one.
C18_RecommendationsByPolarity ==
    ReportedOutcome =>
        call.out.recommendations =
          (CASE call.input = "Diabetic" -> "Monitor blood glucose levels regularly"
             [] call.input = "Not Diabetic" -> "Maintain a healthy weight"
             [] call.input = "Heart Disease Detected" ->
                  "Consult with a cardiologist promptly"
             [] call.input = "No Heart Disease" ->
                  "Maintain a heart-healthy diet rich in fruits, vegetables, and lean proteins")

\* C19: whenever composing the message, connecting, TLS negotiation,
\* authentication or submission fails, the send returns false and raises
\* nothing to the pipeline; the pipeline shows its warning and the run ends
\* with the store as it was before the send.
C19_SendFailureIsFalseNotRaised ==
    [][(pc = "send" /\ run'.mail_fault \in {"compose", "connect", "starttls", "login", "sendmail"}) =>
          /\ ~run'.emailed
          /\ run'.raised = "none"
          /\ "Could not send email. Please check your email address." \in run'.messages
          /\ "Email with PDF report sent successfully!" \notin run'.messages
          /\ pc' = "done"
          /\ StoreUnchanged]_vars

\* A run whose row was committed and whose send failed at authentication
C19_Witness ==
    /\ pc = "done"
    /\ run.mail_fault = "login"
    /\ ~run.emailed
    /\ run.raised = "none"
    /\ "Could not send email. Please check your email address." \in run.messages
    /\ run.nAppend = 1 /\ run.fault = "none"
    /\ Len(heart_predictions) >= 1

-----------------------------------------------------------------------------
(* Concurrent appends: worker threads of the server calling db.save_...     *)
(* on the module's one Database object.  workers.threads[t] is thread t,    *)
(* workers.writer the connection handle holding the engine's write lock     *)
(* (0: none).  A table variable is what has been committed, which is what   *)
(* any other connection reads under write-ahead logging.                    *)

\* One connection object for all threads
thread_local_connection_shared(t) == 1

\* self._local.connection: threading.local keeps one attribute set per thread,
\* so thread t finds, or creates, the handle that only it can reach.
thread_local_connection(t) == t

\* Emails of the submissions the workers carry
WorkerEmails == {<<"a">> \o GMAIL, <<"b">> \o YAHOO}

\* Faults of one append: none, sqlite3.connect fails, the statement fails, or
\* the write lock is not obtained within timeout=10
WorkerFaults == StoreFaults \cup {"locked"}

\* user_data and prediction of the submission worker thread w carries
worker_user_data(w) ==
    [name |-> <<"J","o"," ","D">>, email |-> w.email, features |-> "v1"]

worker_prediction(w) == prediction_of(w.disease, "v1")

Threads == 1..Len(workers.threads)

\* A session's script thread enters db.save_<d>_prediction
WorkerStart(d, email) ==
    /\ Len(workers.threads) < NumWorkers
    /\ workers' = [workers EXCEPT !.threads =
                      Append(@, [pc |-> "start", handle |-> 0, disease |-> d,
                                 email |-> email, pending |-> <<>>,
                                 pending_seqno |-> 0, lastrowid |-> 0,
                                 error |-> "none"])]
    /\ UNCHANGED <<diabetes_predictions, heart_predictions, sqlite_sequence,
                   connection, models_loaded, pc, run, result, runs, call, user_version, session>>

\* conn = self.get_connection()
WorkerGetConnection(t, fault) ==
    /\ t \in Threads
    /\ workers.threads[t].pc = "start"
    /\ fault \in {"none", "connect"}
    /\ LET gc == get_connection(FALSE, fault) IN
       workers' = [workers EXCEPT !.threads[t] =
                      IF gc.raised
                      THEN [@ EXCEPT !.pc = "failed", !.error = "UnboundLocalError"]
                      ELSE [@ EXCEPT !.pc = "connected",
                                     !.handle = thread_local_connection(t)]]
    /\ UNCHANGED <<diabetes_predictions, heart_predictions, sqlite_sequence,
                   connection, models_loaded, pc, run, result, runs, call, user_version, session>>

\* cursor.execute('INSERT ...'): the statement opens the handle's write
\* transaction.  While another handle holds the write lock the call waits, and
\* gives up with "database is locked" after the timeout.  The except branch
\* rolls back and re-raises.
WorkerExecute(t, fault) ==
    /\ t \in Threads
    /\ workers.threads[t].pc = "connected"
    /\ fault \in {"none", "execute", "locked"}
    /\ LET w == workers.threads[t]
           free == workers.writer \in {0, w.handle}
           r == insert_row(Table(w.disease), sqlite_sequence[w.disease], TRUE,
                           IF w.disease = "diabetes" THEN DiabetesColumns ELSE HeartColumns,
                           IF w.disease = "diabetes" THEN DiabetesInsertColumns
                           ELSE HeartInsertColumns,
                           worker_user_data(w), worker_prediction(w), 1, fault)
       IN
       /\ (fault = "locked") = ~free
       /\ workers' =
            IF ~free \/ r.error # "none"
            THEN [workers EXCEPT !.threads[t] =
                     [@ EXCEPT !.pc = "failed", !.error = "OperationalError"]]
            ELSE [workers EXCEPT !.writer = w.handle,
                                 !.threads[t] =
                     [@ EXCEPT !.pc = "executed",
                               !.pending = <<r.rows[Len(r.rows)]>>,
                               !.pending_seqno = r.seqno,
                               !.lastrowid = r.lastrowid]]
    /\ UNCHANGED <<diabetes_predictions, heart_predictions, sqlite_sequence,
                   connection, models_loaded, pc, run, result, runs, call, user_version, session>>

\* conn.commit(): the handle's transaction becomes visible as a whole and the
\* write lock is released; then return cursor.lastrowid.
WorkerCommit(t) ==
    /\ t \in Threads
    /\ workers.threads[t].pc = "executed"
    /\ LET w == workers.threads[t] IN
       /\ IF w.disease = "diabetes"
          THEN /\ diabetes_predictions' = diabetes_predictions \o w.pending
               /\ UNCHANGED heart_predictions
          ELSE /\ heart_predictions' = heart_predictions \o w.pending
               /\ UNCHANGED diabetes_predictions
       /\ sqlite_sequence' = [sqlite_sequence EXCEPT ![w.disease] = w.pending_seqno]
       /\ workers' = [workers EXCEPT !.writer = 0,
                                     !.threads[t] = [@ EXCEPT !.pc = "committed",
                                                              !.pending = <<>>]]
    /\ UNCHANGED <<connection, models_loaded, pc, run, result, runs, call, user_version, session>>

ConcNext ==
    \/ \E d \in Diseases, email \in WorkerEmails : WorkerStart(d, email)
    \/ \E t \in 1..NumWorkers, fault \in WorkerFaults : WorkerGetConnection(t, fault)
    \/ \E t \in 1..NumWorkers, fault \in WorkerFaults : WorkerExecute(t, fault)
    \/ \E t \in 1..NumWorkers : WorkerCommit(t)
    \/ \E d \in Diseases : QueryAll(d)

ConcSpec == Init /\ [][ConcNext]_vars

\* The threads whose append to table d has committed
Committed(d) ==
    {t \in Threads : workers.threads[t].pc = "committed" /\ workers.threads[t].disease = d}

\* Row r is the whole of what thread t submitted
RowOf(r, t) ==
    /\ r.id = workers.threads[t].lastrowid
    /\ r.name = <<"J","o"," ","D">>
    /\ r.email = workers.threads[t].email
    /\ r.features = "v1"
    /\ r.prediction \in {"Diabetic", "Heart Disease Detected"}

\* C20: appends issued concurrently by different threads each use a connection
\* handle of their own, and once they have committed every one of them is in
\* its table as a complete row with an id of its own: none is lost, none is
\* merged with another, and neither the table nor a concurrent reader ever
\* holds a row of an append that has not committed.
C20_ConcurrentAppendsIsolated ==
    /\ \A t1, t2 \in Threads :
          (t1 # t2 /\ workers.threads[t1].handle # 0) =>
              workers.threads[t1].handle # workers.threads[t2].handle
    /\ \A d \in Diseases :
          /\ Len(Table(d)) = Cardinality(Committed(d))
          /\ \A t \in Committed(d) :
                Cardinality({i \in 1..Len(Table(d)) : RowOf(Table(d)[i], t)}) = 1
          /\ \A i, j \in 1..Len(Table(d)) : i # j => Table(d)[i].id # Table(d)[j].id
    /\ result.op = "all" =>
          \A i \in 1..Len(result.rows) :
             \E t \in Committed(result.disease) : RowOf(result.rows[i], t)

\* Two threads were inside their appends at the same time, both committed, and
\* a reader saw the first row while the second append was still open.
C20_Witness ==
    /\ Len(workers.threads) = 2
    /\ workers.threads[1].pc = "committed" /\ workers.threads[2].pc = "executed"
    /\ workers.threads[1].disease = "heart" /\ workers.threads[2].disease = "heart"
    /\ workers.threads[1].handle # workers.threads[2].handle
    /\ Len(heart_predictions) = 1
    /\ result.op = "all" /\ result.disease = "heart" /\ Len(result.rows) = 1
    /\ workers.threads[2].lastrowid = 2

\* C21: the store records an integer schema version, and running the startup
\* initialization again on an initialized store re-applies nothing: the version
\* stays at its target and the tables and their rows stay as they are.
C21_InitializationIdempotentAtVersion ==
    [][InitializeDb =>
          /\ user_version >= 1
          /\ user_version' = user_version
          /\ diabetes_predictions' = diabetes_predictions
          /\ heart_predictions' = heart_predictions
          /\ sqlite_sequence' = sqlite_sequence]_vars

-----------------------------------------------------------------------------
(* Navigation: the module-level code of src/app.py that runs before main()  *)
(* on every script run, and main()'s page dispatch.  session.at is the      *)
(* position of the run: "sync" (sidebar update), "page" (selection flow),   *)
(* "main" (dispatch), "wait" (run over, page on display).  session.shown is *)
(* which widgets of the selection flow are on the page.                     *)

Pages == {"Home", "Prediction", "Others", "About"}

PredictionChoices == {"None", "Diabetes Prediction", "Heart Disease Prediction"}

SessionUnchanged ==
    UNCHANGED <<diabetes_predictions, heart_predictions, sqlite_sequence,
                connection, models_loaded, pc, run, result, runs, call, workers,
                user_version>>

\* The user clicks an entry of the sidebar menu; the script reruns.
ClickSidebar(page) ==
    /\ session.at = "wait"
    /\ session' = [session EXCEPT !.sidebar_selection = page, !.button = "none",
                                  !.at = "sync", !.rendered = "none", !.warned = FALSE]
    /\ SessionUnchanged

\* The user picks an entry of the "Select Prediction Type" box.
SelectChoice(choice) ==
    /\ session.at = "wait"
    /\ session.shown = "selection"
    /\ session' = [session EXCEPT !.prediction_choice = choice, !.button = "none",
                                  !.at = "sync", !.rendered = "none", !.warned = FALSE]
    /\ SessionUnchanged

\* The user presses "Confirm Selection" or "<- Back to Selection".
PressButton(button) ==
    /\ session.at = "wait"
    /\ \/ button = "confirm" /\ session.shown = "selection"
       \/ button = "back" /\ session.shown = "back"
    /\ session' = [session EXCEPT !.button = button,
                                  !.at = "sync", !.rendered = "none", !.warned = FALSE]
    /\ SessionUnchanged

\* A sidebar update that forgets to reset the prediction flow
SyncSidebar_keep_flow ==
    /\ session.at = "sync"
    /\ session' = [session EXCEPT !.selected = session.sidebar_selection, !.at = "page"]
    /\ SessionUnchanged

\* if sidebar_selection != st.session_state.selected: ...
SyncSidebar ==
    /\ session.at = "sync"
    /\ session' =
         IF session.sidebar_selection # session.selected
         THEN IF session.sidebar_selection # "Prediction"
              THEN [session EXCEPT !.selected = session.sidebar_selection,
                                   !.prediction_tab = "None",
                                   !.prediction_confirmed = FALSE,
                                   !.at = "page"]
              ELSE [session EXCEPT !.selected = session.sidebar_selection,
                                   !.at = "page"]
         ELSE [session EXCEPT !.at = "page"]
    /\ SessionUnchanged

\* A selection flow whose Back button clears the flag but not the tab
PageFlow_back_keeps_tab ==
    /\ session.at = "page"
    /\ session' =
         IF session.selected # "Prediction"
         THEN [session EXCEPT !.shown = "nothing", !.prediction_choice = "None",
                              !.at = "main"]
         ELSE IF ~session.prediction_confirmed
         THEN IF session.button = "confirm"
              THEN IF session.prediction_choice = "None"
                   THEN [session EXCEPT !.shown = "selection", !.warned = TRUE,
                                        !.at = "main"]
                   ELSE [session EXCEPT !.shown = "selection",
                                        !.prediction_tab = session.prediction_choice,
                                        !.prediction_confirmed = TRUE,
                                        !.button = "none", !.at = "sync"]
              ELSE [session EXCEPT !.shown = "selection", !.at = "main"]
         ELSE IF session.button = "back"
              THEN [session EXCEPT !.shown = "back", !.prediction_choice = "None",
                                   !.prediction_confirmed = FALSE,
                                   !.button = "none", !.at = "sync"]
              ELSE [session EXCEPT !.shown = "back", !.prediction_choice = "None",
                                   !.at = "main"]
    /\ SessionUnchanged

\* The page content block: the type selection with its Confirm button while
\* the flow is not confirmed, the Back button once it is.  st.rerun() ends
\* the run on the spot and starts the script again, with no button pressed.
\* A select box that is not drawn in a run loses its value.
PageFlow ==
    /\ session.at = "page"
    /\ session' =
         IF session.selected # "Prediction"
         THEN [session EXCEPT !.shown = "nothing", !.prediction_choice = "None",
                              !.at = "main"]
         ELSE IF ~session.prediction_confirmed
         THEN IF session.button = "confirm"
              THEN IF session.prediction_choice = "None"
                   THEN [session EXCEPT !.shown = "selection", !.warned = TRUE,
                                        !.at = "main"]
                   ELSE [session EXCEPT !.shown = "selection",
                                        !.prediction_tab = session.prediction_choice,
                                        !.prediction_confirmed = TRUE,
                                        !.button = "none", !.at = "sync"]
              ELSE [session EXCEPT !.shown = "selection", !.at = "main"]
         ELSE IF session.button = "back"
              THEN [session EXCEPT !.shown = "back", !.prediction_choice = "None",
                                   !.prediction_tab = "None",
                                   !.prediction_confirmed = FALSE,
                                   !.button = "none", !.at = "sync"]
              ELSE [session EXCEPT !.shown = "back", !.prediction_choice = "None",
                                   !.at = "main"]
    /\ SessionUnchanged

\* main(): Home first, then the two disease pages by prediction_tab, then
\* About; any other state draws nothing.
MainDispatch ==
    /\ session.at = "main"
    /\ session' = [session EXCEPT !.at = "wait", !.rendered =
                      IF session.selected = "Home" THEN "Home"
                      ELSE IF session.prediction_tab = "Diabetes Prediction"
                        THEN "Diabetes Prediction"
                      ELSE IF session.prediction_tab = "Heart Disease Prediction"
                        THEN "Heart Disease Prediction"
                      ELSE IF session.selected = "About" THEN "About"
                      ELSE "nothing"]
    /\ SessionUnchanged

SessionNext ==
    \/ \E page \in Pages : ClickSidebar(page)
    \/ \E choice \in PredictionChoices : SelectChoice(choice)
    \/ \E button \in {"confirm", "back"} : PressButton(button)
    \/ SyncSidebar
    \/ PageFlow
    \/ MainDispatch

SessionSpec == Init /\ [][SessionNext]_vars

\* C22: whenever the user goes from the Prediction page to another page, the
\* prediction flow of the session is reset (tab "None", not confirmed), and a
\* later return to Prediction arrives at the type selection.
C22_LeavingPredictionResetsFlow ==
    [][/\ (session.at = "sync" /\ session.selected = "Prediction"
             /\ session.sidebar_selection # "Prediction") =>
            /\ session'.selected = session.sidebar_selection
            /\ session'.prediction_tab = "None"
            /\ ~session'.prediction_confirmed
       /\ (session.at = "sync" /\ session.selected # "Prediction"
             /\ session.sidebar_selection = "Prediction") =>
            /\ session'.selected = "Prediction"
            /\ session'.prediction_tab = "None"
            /\ ~session'.prediction_confirmed]_vars

\* The page on display was a confirmed disease flow (it shows the Back
\* button), the user clicked About, and the sidebar update has reset the flow.
C22_Witness ==
    /\ session.at = "page"
    /\ session.shown = "back"
    /\ session.selected = "About"
    /\ session.prediction_tab = "None"
    /\ ~session.prediction_confirmed

\* C27: when main() dispatches, the flow is confirmed exactly when the tab is
\* one of the two disease flows, and the tab is other than "None" only on the
\* Prediction page; so no disease form is drawn while the page is Others or
\* About (or Home), and confirming the choice "None" changes nothing.
C27_DispatchInvariant ==
    [][/\ session'.at = "main" =>
            /\ session'.prediction_confirmed <=>
                 session'.prediction_tab \in {"Diabetes Prediction", "Heart Disease Prediction"}
            /\ session'.prediction_tab # "None" => session'.selected = "Prediction"
       /\ session'.rendered \in {"Diabetes Prediction", "Heart Disease Prediction"} =>
            session'.selected = "Prediction"
       /\ (session.at = "page" /\ session.button = "confirm"
             /\ session.prediction_choice = "None") =>
            /\ session'.prediction_tab = session.prediction_tab
            /\ session'.prediction_confirmed = session.prediction_confirmed
            /\ session'.selected = session.selected]_vars

\* A confirmed heart flow on display after the user had gone back once
C27_Witness ==
    /\ session.at = "wait"
    /\ session.selected = "Prediction"
    /\ session.prediction_confirmed
    /\ session.prediction_tab = "Heart Disease Prediction"
    /\ session.rendered = "Heart Disease Prediction"
    /\ session.shown = "back"

\* C23: the diabetes append names only columns the diabetes table has, so on
\* a healthy store a diabetes save succeeds: the run gets past persistence and
\* its row is in the table.
C23_DiabetesAppendSucceeds ==
    (run.disease = "diabetes" /\ run.nAppend = 1 /\ run.fault = "none") =>
        /\ run.raised = "none"
        /\ run.outcome \in {"Persisted", "Notified", "Failed@notify"}
        /\ \E i \in 1..Len(diabetes_predictions) :
              /\ diabetes_predictions[i].id = run.lastrowid
              /\ diabetes_predictions[i].email = run.email

C25_FormEmailAcceptedByHistory ==
    (call.fn = "email_checks" /\ call.out.form) => call.out.history

\* C26: the send reports success only if the message it submitted carried the
\* generated report; when report generation fails, the send does not report
\* success.
C26_SuccessMeansReportAttached ==
    /\ run.emailed => run.attached
    /\ (run.nSend = 1 /\ run.mail_fault = "pdf") =>
          /\ ~run.emailed
          /\ "Email with PDF report sent successfully!" \notin run.messages

\* C28: when the model artifacts failed to load at process start, a press of
\* Predict makes no inference call, no append and no send; the run only
\* reports the model-loading error.
C28_NoModelsNoPipeline ==
    ~models_loaded =>
        /\ run.nInfer = 0 /\ run.nAppend = 0 /\ run.nSend = 0
        /\ diabetes_predictions = <<>> /\ heart_predictions = <<>>
        /\ (run.pressed /\ ~BadName(run.name) /\ ~BadEmail(run.email)) =>
              /\ pc = "done"
              /\ run.outcome = "Failed@models"
              /\ run.messages = {"Model loading error. Unable to make prediction."}

\* Predict pressed on a valid form while the artifacts are missing
C28_Witness ==
    /\ ~models_loaded
    /\ pc = "done"
    /\ run.pressed
    /\ run.disease = "heart"
    /\ run.features = "v1"
    /\ run.outcome = "Failed@models"

\* C29: in the history view of a disease, the total of the summary metric is
\* the number of records the lookup returned, and the positive share counts
\* the rows whose stored label is the disease's positive outcome string.
C29_MetricCountsRecords ==
    (/\ call.fn = "history_metric"
     /\ \A i \in 1..Len(call.input) : call.input[i] \in OutcomeLabels(call.disease)) =>
        /\ call.out.total_user_records = Len(call.input)
        /\ call.out.positive =
             Cardinality({i \in 1..Len(call.input) :
                 call.input[i] = (IF call.disease = "diabetes" THEN "Diabetic"
                                  ELSE "Heart Disease Detected")})

\* C30: when a save fails at any step inside its try block, obtaining the
\* connection included, its handler runs to the end: the error is reported,
\* the transaction rolled back, and the error that reaches the caller is the
\* original storage error, not an error of the handler's own.
C30_SaveHandlerReraisesOriginal ==
    run.outcome = "Failed@persist" =>
        /\ "Error saving prediction" \in run.messages
        /\ run.raised = "OperationalError"
        /\ RowCountsAsAtStart

====
